---- MODULE Spec2Model ----
(***************************************************************************)
(* State-machine model of the open-music API: the users, playlists,        *)
(* collaborations, playlist_songs, playlist_song_activities and            *)
(* user_album_likes tables, the Redis cache in front of the three playlist *)
(* read endpoints, the export queue, and the HTTP handlers that work on    *)
(* them.  A handler that only writes after all its checks is one atomic    *)
(* step; a handler that checks with one statement and inserts with a later *)
(* one (registration, album like) is two steps, so that requests can       *)
(* interleave between them.  The response of the request that ended last   *)
(* is kept in `response`.                                                  *)
(***************************************************************************)
EXTENDS Integers, Sequences, FiniteSets, TLC

\* ------------------------------------------------------------------ bounds
\* number of playlist ids nanoid hands out in a run
MaxPlaylists == 2
\* rows table playlist_song_activities may reach
MaxActivities == 2
\* rows table playlist_songs may reach
MaxSongRows == 2
\* requests of one kind for the same key that may be in flight together
MaxInFlight == 2
\* messages the export queue may hold
MaxMessages == 2
\* rows table authentications may reach
MaxTokenRows == 2
\* seconds the clock that stamps the tokens may advance
MaxClock == 1

\* ------------------------------------------------------- program constants
\* 60 * 30, the expiry passed to every cacheService.set of the handlers
CacheTTL == 1800

\* ---------------------------------------------------------------- universe
RegisteredUsers == {"u1", "u2"}
\* ids addUser hands out, in this order
NewUsers == <<"u3", "u4">>
NewUserIds == {NewUsers[i] : i \in 1 .. Len(NewUsers)}
AccountIds == RegisteredUsers \cup NewUserIds
UnknownUser == "u0"
UserIds == AccountIds \cup {UnknownUser}
Usernames == {"n1", "n2", "n3", "n4"}
CatalogSongs == {"s1"}
UnknownSong == "s0"
SongIds == CatalogSongs \cup {UnknownSong}
CatalogAlbums == {"a1", "a2"}
UnknownAlbum == "a0"
AlbumIds == CatalogAlbums \cup {UnknownAlbum}
TargetEmails == {"a@mail", "b@mail"}
QueueNames == {"export:playlist"}
PlaylistIds == 1 .. MaxPlaylists
\* the two signing keys of the configuration, and "none" for a string that
\* carries the signature of neither (forged, truncated, not a token at all)
accessKey == "ACCESS_TOKEN_KEY"
refreshKey == "REFRESH_TOKEN_KEY"
Keys == {accessKey, refreshKey, "none"}
\* a token is its payload id, its issued-at second and the key that signed it
Tokens == [id : RegisteredUsers, iat : 0 .. MaxClock, key : Keys]
\* the token field of a response to a request that carried or issued none
NoToken == [id |-> "-", iat |-> 0, key |-> "none"]
\* owner column of a playlist id that has no row
NoRow == "NoRow"

VARIABLES
  users,                     \* ids of the rows of table users
  usernames,                 \* user id -> username column of the row
  registering,               \* username -> addUser calls between check and INSERT
  albums,                    \* ids of the rows of table albums
  user_album_likes,          \* user id -> album id -> number of rows
  liking,                    \* user id -> album id -> addLikeAlbum calls
                             \*   between check and INSERT
  queues,                    \* queue name -> messages sent, oldest first
  songs,                     \* ids of the rows of table songs
  playlists,                 \* playlist id -> owner, or NoRow
  collaborations,            \* playlist id -> user id -> number of rows
  playlist_songs,            \* playlist id -> song id -> number of rows
  playlist_song_activities,  \* playlist id -> rows in insertion order
  cache,                     \* the Redis keys playlists:U, songs:P, activities:P
  idSeq,                     \* playlist ids generated so far (nanoid never repeats)
  authentications,           \* refresh token -> number of rows of table authentications
  issued,                    \* refresh tokens a login has handed to a client
  now,                       \* the second the clock shows (the iat of a new token)
  pending,                   \* playlist requests that have made their first store
                             \*   call and not yet the calls that follow it
  response                   \* what the last request did and returned

\* what the user, album and export handlers never touch
playlistStore == <<songs, playlists, collaborations, playlist_songs,
                   playlist_song_activities, cache, idSeq, pending>>

\* what only the authentication handlers touch
sessions == <<authentications, issued, now>>

\* what the playlist handlers never touch
catalog == <<usernames, registering, albums, user_album_likes, liking, queues,
            sessions>>

vars == <<users, usernames, registering, albums, user_album_likes, liking,
          queues, songs, playlists, collaborations, playlist_songs,
          playlist_song_activities, cache, idSeq, authentications, issued, now,
          pending, response>>

\* ------------------------------------------------------------------ errors
OK == "ok"
ValidationError == "ValidationError"
InvariantError == "InvariantError"
NotFoundError == "NotFoundError"
AuthenticationError == "AuthenticationError"
AuthorizationError == "AuthorizationError"
ServerError == "ServerError"

\* ------------------------------------------------------- UsersService
getUserById(id) ==
  IF id \notin users THEN NotFoundError ELSE OK

\* SELECT username FROM users WHERE username = $1, and the throw on a row
verifyNewUsername(username) ==
  IF \E u \in users : usernames[u] = username THEN InvariantError ELSE OK

usernameUnique_off(username) == TRUE

\* users.username is unique: whether the store takes a row with this username
usernameUnique(username) ==
  \A u \in users : usernames[u] # username

\* SELECT id, username, password FROM users WHERE username = $1, and the
\* bcrypt comparison, whose result is match
verifyUserCredential(username, match) ==
  IF ~(\E u \in users : usernames[u] = username) THEN AuthenticationError
  ELSE IF ~match THEN AuthenticationError
  ELSE OK

\* the id of the row verifyUserCredential read
credentialUser(username) == CHOOSE u \in users : usernames[u] = username

\* ------------------------------------------------------- TokenManager
\* Jwt.token.generate stamps the payload with the current second
generateAccessToken(id) == [id |-> id, iat |-> now, key |-> accessKey]

generateRefreshToken(id) == [id |-> id, iat |-> now, key |-> refreshKey]

\* decode and verifySignature against the refresh key; any throw becomes
\* InvariantError
tokenManager_verifyRefreshToken(refreshToken) ==
  IF refreshToken.key = refreshKey THEN OK ELSE InvariantError

\* ------------------------------------------------------- AuthenticationsService
\* INSERT INTO authentications VALUES($1)
addRefreshToken(token) ==
  [authentications EXCEPT ![token] = @ + 1]

verifyRefreshToken_noThrow(token) == OK

\* SELECT token FROM authentications WHERE token = $1, and the throw on no row
verifyRefreshToken(token) ==
  IF authentications[token] = 0 THEN InvariantError ELSE OK

\* DELETE FROM authentications WHERE token = $1
deleteRefreshToken(token) ==
  [authentications EXCEPT ![token] = 0]

RECURSIVE SumTokens(_)
SumTokens(S) ==
  IF S = {} THEN 0
  ELSE LET t == CHOOSE x \in S : TRUE
       IN authentications[t] + SumTokens(S \ {t})

\* rows of table authentications
TokenRows == SumTokens(Tokens)

\* ------------------------------------------------------- AlbumsService
getAlbumById(id) ==
  IF id \notin albums THEN NotFoundError ELSE OK

\* ------------------------------------------------------- AlbumLikesService
verifyLikeAlbum_noThrow(userId, albumId) == OK

verifyLikeAlbum(userId, albumId) ==
  IF user_album_likes[userId][albumId] > 0 THEN InvariantError ELSE OK

likesUnique_off(userId, albumId) == TRUE

\* unique (user_id, album_id): the constraint of table user_album_likes
likesUnique(userId, albumId) ==
  user_album_likes[userId][albumId] = 0

\* table user_album_likes after the INSERT of addLikeAlbum
likesInsert(userId, albumId) ==
  [user_album_likes EXCEPT ![userId][albumId] = @ + 1]

\* outcome of deleteLikeAlbum(userId, albumId)
deleteLikeAlbum(userId, albumId) ==
  IF user_album_likes[userId][albumId] = 0 THEN NotFoundError ELSE OK

likesDelete_keepRows(userId, albumId) == user_album_likes

\* table user_album_likes after the DELETE of deleteLikeAlbum
likesDelete(userId, albumId) ==
  [user_album_likes EXCEPT ![userId][albumId] = 0]

\* ------------------------------------------------------- SongsService
\* returns a boolean, it never throws
verifySongExists(id) == id \in songs

\* ------------------------------------------------------- CollaborationsService
collaborationsUnique_off(playlistId, userId) == TRUE

\* unique (playlist_id, user_id): the constraint of table collaborations
collaborationsUnique(playlistId, userId) ==
  collaborations[playlistId][userId] = 0

\* outcome of addCollaboration({ playlistId, userId })
addCollaboration(playlistId, userId) ==
  IF getUserById(userId) # OK THEN NotFoundError
  ELSE IF ~collaborationsUnique(playlistId, userId) THEN ServerError
  ELSE OK

collaborationsInsert_everyUser(playlistId, userId) ==
  [collaborations EXCEPT ![playlistId] =
     [u \in UserIds |-> IF u \in users THEN @[u] + 1 ELSE @[u]]]

\* table collaborations after the INSERT of addCollaboration
collaborationsInsert(playlistId, userId) ==
  [collaborations EXCEPT ![playlistId][userId] = @ + 1]

\* outcome of deleteCollaboration({ playlistId, userId })
deleteCollaboration(playlistId, userId) ==
  IF collaborations[playlistId][userId] = 0 THEN InvariantError ELSE OK

\* table collaborations after the DELETE of deleteCollaboration
collaborationsDelete(playlistId, userId) ==
  [collaborations EXCEPT ![playlistId][userId] = 0]

verifyCollaborator_noThrow(playlistId, userId) == OK

verifyCollaborator(playlistId, userId) ==
  IF collaborations[playlistId][userId] = 0 THEN AuthorizationError ELSE OK

\* ------------------------------------------------------- PlaylistsService
verifyPlaylistOwner_orCollaborator(id, owner) ==
  IF playlists[id] = NoRow THEN NotFoundError
  ELSE IF playlists[id] # owner /\ collaborations[id][owner] = 0 THEN AuthorizationError
  ELSE OK

verifyPlaylistOwner(id, owner) ==
  IF playlists[id] = NoRow THEN NotFoundError
  ELSE IF playlists[id] # owner THEN AuthorizationError
  ELSE OK

\* the catch block rethrows NotFoundError only and swallows everything else;
\* verifyCollaborator then runs whether or not the owner check passed
verifyPlaylistAccess_swallowAll(id, userId) ==
  verifyCollaborator(id, userId)

verifyPlaylistAccess(id, userId) ==
  IF verifyPlaylistOwner(id, userId) = NotFoundError THEN NotFoundError
  ELSE verifyCollaborator(id, userId)

\* primary-store queries verifyPlaylistAccess issues
verifyPlaylistAccessQueries(id) ==
  IF playlists[id] = NoRow THEN 1 ELSE 2

RECURSIVE SumOver(_, _)
SumOver(f, S) ==
  IF S = {} THEN 0
  ELSE LET x == CHOOSE y \in S : TRUE IN f[x] + SumOver(f, S \ {x})

\* rows of playlists LEFT JOIN collaborations that the WHERE clause keeps,
\* as the number of result rows per playlist id
getPlaylists(owner) ==
  [p \in PlaylistIds |->
     IF playlists[p] = NoRow THEN 0
     ELSE IF playlists[p] = owner
       THEN (IF SumOver(collaborations[p], UserIds) = 0 THEN 1
             ELSE SumOver(collaborations[p], UserIds))
       ELSE collaborations[p][owner]]

\* the row getPlaylistById returns (after a successful access check)
getPlaylistById(id) == [id |-> id, owner |-> playlists[id]]

\* ------------------------------------------------------- PlaylistSongsService
\* songs JOIN playlist_songs: result rows per song id
getSongsFromPlaylist_rows(playlistId) ==
  [s \in SongIds |->
     IF verifySongExists(s) THEN playlist_songs[playlistId][s] ELSE 0]

\* rows of table playlist_songs
PlaylistSongRows ==
  SumOver([p \in PlaylistIds |-> SumOver(playlist_songs[p], SongIds)], PlaylistIds)

\* ------------------------------------------------------- PlaylistSongActivitiesService
getPlaylistSongActivities(playlistId) ==
  playlist_song_activities[playlistId]

\* rows of table playlist_song_activities
ActivityRows ==
  SumOver([p \in PlaylistIds |-> Len(playlist_song_activities[p])], PlaylistIds)

\* ------------------------------------------------------- CacheService / JSON
\* a string as JSON.stringify writes it
JSONstringify(v) == [wellFormed |-> TRUE, json |-> v]

\* a stored string that is no JSON text
Garbled == [wellFormed |-> FALSE, json |-> <<>>]

\* JSON.parse: the parsed value, or nothing when it throws
JSONparse(str) == IF str.wellFormed THEN {str.json} ELSE {}

\* cacheService.get: the stored string, or nothing when it throws
\* (key absent, or the client call fails); fault is what the call met
cacheGet(entry, fault) ==
  IF fault = "throws" THEN {}
  ELSE IF fault = "malformed" THEN {Garbled}
  ELSE {e.value : e \in entry}

cacheRead_noParse(entry, fault) ==
  {str.json : str \in cacheGet(entry, fault)}

\* JSON.parse(await cacheService.get(key)): the value of a hit, or nothing
cacheRead(entry, fault) ==
  UNION {JSONparse(str) : str \in cacheGet(entry, fault)}

\* cacheService.set(key, value, expirationInSecond): the entry stored
cacheSet(value, expirationInSecond) ==
  {[value |-> value, ex |-> expirationInSecond]}

cacheFill_noExpiry(rows) == cacheSet(JSONstringify(rows), 0)

\* cacheService.set(key, JSON.stringify(rows), 60 * 30) of the catch blocks
cacheFill(rows) == cacheSet(JSONstringify(rows), CacheTTL)

\* what a read may meet at the cache: a stored value can only be malformed
\* when there is one
Faults(entry) == IF entry = {} THEN {"none", "throws"}
                 ELSE {"none", "throws", "malformed"}

\* ------------------------------------------------------- responses
NoData == {}
\* op, user, playlist: the request; status: ok or the error thrown;
\* source: the X-Data-Source header; queries: primary-store queries issued;
\* lookup: what the cache lookup met; data: the payload returned
Response(op, user, playlist, status, source, queries, data) ==
  [op |-> op, user |-> user, playlist |-> playlist, status |-> status,
   source |-> source, queries |-> queries, lookup |-> "-", data |-> data]

\* how a cache lookup went: a hit, a miss (key absent), or the fault met
Lookup(entry, fault) ==
  IF fault # "none" THEN fault ELSE IF entry = {} THEN "miss" ELSE "hit"

ReadResponse(op, user, playlist, status, source, queries, lookup, data) ==
  [op |-> op, user |-> user, playlist |-> playlist, status |-> status,
   source |-> source, queries |-> queries, lookup |-> lookup, data |-> data]

Init ==
  /\ users = RegisteredUsers
  /\ usernames = [u \in AccountIds |->
                    IF u = "u1" THEN "n1" ELSE IF u = "u2" THEN "n2" ELSE NoRow]
  /\ registering = [n \in Usernames |-> 0]
  /\ albums = CatalogAlbums
  /\ user_album_likes = [u \in AccountIds |-> [a \in AlbumIds |-> 0]]
  /\ liking = [u \in AccountIds |-> [a \in AlbumIds |-> 0]]
  /\ queues = [q \in QueueNames |-> <<>>]
  /\ songs = CatalogSongs
  /\ playlists = [p \in PlaylistIds |-> NoRow]
  /\ collaborations = [p \in PlaylistIds |-> [u \in UserIds |-> 0]]
  /\ playlist_songs = [p \in PlaylistIds |-> [s \in SongIds |-> 0]]
  /\ playlist_song_activities = [p \in PlaylistIds |-> <<>>]
  /\ cache = [playlists |-> [u \in AccountIds |-> {}],
              songs |-> [p \in PlaylistIds |-> {}],
              activities |-> [p \in PlaylistIds |-> {}]]
  /\ idSeq = 0
  /\ authentications = [t \in Tokens |-> 0]
  /\ issued = {}
  /\ now = 0
  /\ pending = {}
  /\ response = Response("init", "-", 0, OK, "-", 0, NoData)

\* ------------------------------------------------------- PlaylistsHandler
\* POST /playlists.  addPlaylist inserts the playlist row, then the owner's
\* collaboration row; the handler touches no cache key.
postPlaylistHandler(credentialId, valid) ==
  IF ~valid THEN
    /\ response' = Response("postPlaylist", credentialId, 0, ValidationError, "-", 0, NoData)
    /\ UNCHANGED <<catalog, pending, users, songs, playlists, collaborations, playlist_songs,
                   playlist_song_activities, cache, idSeq>>
  ELSE
    /\ idSeq < MaxPlaylists
    /\ LET id == idSeq + 1
           added == addCollaboration(id, credentialId)
       IN /\ idSeq' = id
          /\ playlists' = [playlists EXCEPT ![id] = credentialId]
          /\ collaborations' = IF added = OK
                                 THEN collaborationsInsert(id, credentialId)
                                 ELSE collaborations
          /\ response' = Response("postPlaylist", credentialId, id, added, "-",
                                  IF added = NotFoundError THEN 2 ELSE 3, NoData)
    /\ UNCHANGED <<catalog, pending, users, songs, playlist_songs, playlist_song_activities, cache>>

\* GET /playlists.  The try block parses the cached list and then still
\* calls getPlaylists before building the response.
getPlaylistsHandler(credentialId, fault) ==
  LET entry == cache.playlists[credentialId]
      hit == cacheRead(entry, fault)
      rows == getPlaylists(credentialId)
  IN /\ IF hit # {}
          THEN /\ response' = ReadResponse("getPlaylists", credentialId, 0, OK, "cache",
                                           1, Lookup(entry, fault), hit)
               /\ cache' = cache
          ELSE /\ response' = ReadResponse("getPlaylists", credentialId, 0, OK, "db",
                                           1, Lookup(entry, fault), {rows})
               /\ cache' = [cache EXCEPT !.playlists[credentialId] = cacheFill(rows)]
     /\ UNCHANGED <<catalog, pending, users, songs, playlists, collaborations, playlist_songs,
                    playlist_song_activities, idSeq>>

\* the three cacheService.delete calls of deletePlaylistHandler
deletePlaylistInvalidate_allLists(credentialId, playlistId) ==
  [cache EXCEPT !.playlists = [u \in AccountIds |-> {}],
                !.activities[playlistId] = {},
                !.songs[playlistId] = {}]

deletePlaylistInvalidate(credentialId, playlistId) ==
  [cache EXCEPT !.playlists[credentialId] = {},
                !.activities[playlistId] = {},
                !.songs[playlistId] = {}]

\* DELETE /playlists/{playlistId}
deletePlaylistHandler(credentialId, playlistId) ==
  LET owner == verifyPlaylistOwner(playlistId, credentialId)
  IN /\ IF owner # OK
          THEN /\ response' = Response("deletePlaylist", credentialId, playlistId,
                                       owner, "-", 1, NoData)
               /\ UNCHANGED <<playlists, cache>>
          ELSE /\ playlists' = [playlists EXCEPT ![playlistId] = NoRow]
               /\ cache' = deletePlaylistInvalidate(credentialId, playlistId)
               /\ response' = Response("deletePlaylist", credentialId, playlistId,
                                       OK, "-", 2, NoData)
     /\ UNCHANGED <<catalog, pending, users, songs, collaborations, playlist_songs,
                    playlist_song_activities, idSeq>>

\* the two cacheService.delete calls of postSongToPlaylist and
\* deleteSongFromPlaylist
songInvalidate(playlistId) ==
  [cache EXCEPT !.activities[playlistId] = {}, !.songs[playlistId] = {}]

Activity(songId, userId, action) ==
  [song_id |-> songId, user_id |-> userId, action |-> action]

addPlaylistSongActivity_dedup(playlistId, songId, userId) ==
  IF \E i \in 1 .. Len(playlist_song_activities[playlistId]) :
       playlist_song_activities[playlistId][i] = Activity(songId, userId, "add")
    THEN playlist_song_activities
    ELSE [playlist_song_activities EXCEPT ![playlistId] =
            Append(@, Activity(songId, userId, "add"))]

\* table playlist_song_activities after the INSERT of addPlaylistSongActivity
addPlaylistSongActivity(playlistId, songId, userId) ==
  [playlist_song_activities EXCEPT ![playlistId] =
     Append(@, Activity(songId, userId, "add"))]

deletePlaylistSongActivity_asAdd(playlistId, songId, userId) ==
  [playlist_song_activities EXCEPT ![playlistId] =
     Append(@, Activity(songId, userId, "add"))]

\* table playlist_song_activities after the INSERT of
\* deletePlaylistSongActivity
deletePlaylistSongActivity(playlistId, songId, userId) ==
  [playlist_song_activities EXCEPT ![playlistId] =
     Append(@, Activity(songId, userId, "delete"))]

\* POST /playlists/{playlistId}/songs.  addSongToPlaylist awaits
\* verifySongExists and drops its result, then inserts.  logged: the INSERT
\* of addPlaylistSongActivity returned its row; when it did not, the
\* InvariantError leaves the handler after the playlist_songs row is in and
\* before the cache deletes.
postSongToPlaylist(credentialId, playlistId, songId, valid, logged) ==
  LET access == verifyPlaylistAccess(playlistId, credentialId)
  IN /\ IF ~valid
          THEN /\ response' = Response("postSong", credentialId, playlistId,
                                       ValidationError, "-", 0, {songId})
               /\ UNCHANGED <<playlist_songs, playlist_song_activities, cache>>
          ELSE IF access # OK
          THEN /\ response' = Response("postSong", credentialId, playlistId, access,
                                       "-", verifyPlaylistAccessQueries(playlistId),
                                       {songId})
               /\ UNCHANGED <<playlist_songs, playlist_song_activities, cache>>
          ELSE IF ~logged
          THEN /\ PlaylistSongRows < MaxSongRows
               /\ playlist_songs' = [playlist_songs EXCEPT ![playlistId][songId] = @ + 1]
               /\ response' = Response("postSong", credentialId, playlistId,
                                       InvariantError, "-",
                                       verifyPlaylistAccessQueries(playlistId) + 3,
                                       {songId})
               /\ UNCHANGED <<playlist_song_activities, cache>>
          ELSE /\ ActivityRows < MaxActivities
               /\ PlaylistSongRows < MaxSongRows
               /\ playlist_songs' = [playlist_songs EXCEPT ![playlistId][songId] = @ + 1]
               /\ playlist_song_activities' =
                    addPlaylistSongActivity(playlistId, songId, credentialId)
               /\ cache' = songInvalidate(playlistId)
               /\ response' = Response("postSong", credentialId, playlistId, OK, "-",
                                       verifyPlaylistAccessQueries(playlistId) + 3,
                                       {songId})
     /\ UNCHANGED <<catalog, pending, users, songs, playlists, collaborations, idSeq>>

\* GET /playlists/{playlistId}/songs.  Access check and getPlaylistById come
\* first, the cache lookup after them.
getSongsFromPlaylist(credentialId, playlistId, fault) ==
  LET access == verifyPlaylistAccess(playlistId, credentialId)
      checked == verifyPlaylistAccessQueries(playlistId)
      playlist == getPlaylistById(playlistId)
      entry == cache.songs[playlistId]
      hit == cacheRead(entry, fault)
      rows == getSongsFromPlaylist_rows(playlistId)
  IN /\ IF access # OK
          THEN /\ response' = Response("getSongs", credentialId, playlistId, access,
                                       "-", checked, NoData)
               /\ cache' = cache
          ELSE IF hit # {}
          THEN /\ response' = ReadResponse("getSongs", credentialId, playlistId, OK,
                                           "cache", checked + 1, Lookup(entry, fault),
                                           {[playlist |-> playlist, songs |-> v] : v \in hit})
               /\ cache' = cache
          ELSE /\ response' = ReadResponse("getSongs", credentialId, playlistId, OK,
                                           "db", checked + 2, Lookup(entry, fault),
                                           {[playlist |-> playlist, songs |-> rows]})
               /\ cache' = [cache EXCEPT !.songs[playlistId] = cacheFill(rows)]
     /\ UNCHANGED <<catalog, pending, users, songs, playlists, collaborations, playlist_songs,
                    playlist_song_activities, idSeq>>

playlistSongsDelete_noThrow(playlistId, songId) == OK

\* DELETE FROM playlist_songs ... RETURNING id of deleteSongFromPlaylist, and
\* the throw when no row came back
playlistSongsDelete(playlistId, songId) ==
  IF playlist_songs[playlistId][songId] = 0 THEN NotFoundError ELSE OK

\* DELETE /playlists/{playlistId}/songs.  logged: as in postSongToPlaylist,
\* for the INSERT of deletePlaylistSongActivity.
deleteSongFromPlaylist(credentialId, playlistId, songId, valid, logged) ==
  LET access == verifyPlaylistAccess(playlistId, credentialId)
  IN /\ IF ~valid
          THEN /\ response' = Response("deleteSong", credentialId, playlistId,
                                       ValidationError, "-", 0, {songId})
               /\ UNCHANGED <<playlist_songs, playlist_song_activities, cache>>
          ELSE IF access # OK
          THEN /\ response' = Response("deleteSong", credentialId, playlistId, access,
                                       "-", verifyPlaylistAccessQueries(playlistId),
                                       {songId})
               /\ UNCHANGED <<playlist_songs, playlist_song_activities, cache>>
          ELSE IF playlistSongsDelete(playlistId, songId) # OK
          THEN /\ response' = Response("deleteSong", credentialId, playlistId,
                                       playlistSongsDelete(playlistId, songId), "-",
                                       verifyPlaylistAccessQueries(playlistId) + 2,
                                       {songId})
               /\ UNCHANGED <<playlist_songs, playlist_song_activities, cache>>
          ELSE IF ~logged
          THEN /\ playlist_songs' = [playlist_songs EXCEPT ![playlistId][songId] = 0]
               /\ response' = Response("deleteSong", credentialId, playlistId,
                                       InvariantError, "-",
                                       verifyPlaylistAccessQueries(playlistId) + 3,
                                       {songId})
               /\ UNCHANGED <<playlist_song_activities, cache>>
          ELSE /\ ActivityRows < MaxActivities
               /\ playlist_songs' = [playlist_songs EXCEPT ![playlistId][songId] = 0]
               /\ playlist_song_activities' =
                    deletePlaylistSongActivity(playlistId, songId, credentialId)
               /\ cache' = songInvalidate(playlistId)
               /\ response' = Response("deleteSong", credentialId, playlistId, OK, "-",
                                       verifyPlaylistAccessQueries(playlistId) + 3,
                                       {songId})
     /\ UNCHANGED <<catalog, pending, users, songs, playlists, collaborations, idSeq>>

\* ------------------------------------------------- PlaylistsHandler, by await
\* Every service and cache call of a handler is awaited, and other requests
\* run between two awaits.  The three handlers on the songs of a playlist are
\* given here in two steps each: up to the first call that reads or writes
\* table playlist_songs, and from there to the response.  A request between
\* its two steps is a record of pending.
InFlight(op, user, playlist, owner, song, rows, lookup) ==
  [op |-> op, user |-> user, playlist |-> playlist, owner |-> owner,
   song |-> song, rows |-> rows, lookup |-> lookup]

\* the rows field of a request in flight that has read none
NoRows == [s \in SongIds |-> 0]

\* requests in flight that will still insert an activity row
PendingWrites == Cardinality({r \in pending : r.op # "getSongs"})

\* POST /playlists/{playlistId}/songs up to the INSERT of addSongToPlaylist
postSongToPlaylist_insert(credentialId, playlistId, songId) ==
  LET access == verifyPlaylistAccess(playlistId, credentialId)
      r == InFlight("postSong", credentialId, playlistId, playlists[playlistId],
                    songId, NoRows, "-")
  IN /\ IF access # OK
          THEN /\ response' = Response("postSong", credentialId, playlistId, access,
                                       "-", verifyPlaylistAccessQueries(playlistId),
                                       {songId})
               /\ UNCHANGED <<playlist_songs, pending>>
          ELSE /\ r \notin pending
               /\ Cardinality(pending) < MaxInFlight
               /\ ActivityRows + PendingWrites < MaxActivities
               /\ PlaylistSongRows < MaxSongRows
               /\ playlist_songs' = [playlist_songs EXCEPT ![playlistId][songId] = @ + 1]
               /\ pending' = pending \cup {r}
               /\ UNCHANGED response
     /\ UNCHANGED <<catalog, users, songs, playlists, collaborations,
                    playlist_song_activities, cache, idSeq>>

\* the same request from addPlaylistSongActivity on: the activity row, the
\* two cache deletes, the response
postSongToPlaylist_record(r) ==
  /\ r \in pending
  /\ r.op = "postSong"
  /\ playlist_song_activities' = addPlaylistSongActivity(r.playlist, r.song, r.user)
  /\ cache' = songInvalidate(r.playlist)
  /\ pending' = pending \ {r}
  /\ response' = Response("postSong", r.user, r.playlist, OK, "-",
                          verifyPlaylistAccessQueries(r.playlist) + 3, {r.song})
  /\ UNCHANGED <<catalog, users, songs, playlists, collaborations, playlist_songs,
                 idSeq>>

\* DELETE /playlists/{playlistId}/songs up to the DELETE of
\* deleteSongFromPlaylist
deleteSongFromPlaylist_delete(credentialId, playlistId, songId) ==
  LET access == verifyPlaylistAccess(playlistId, credentialId)
      deleted == playlistSongsDelete(playlistId, songId)
      r == InFlight("deleteSong", credentialId, playlistId, playlists[playlistId],
                    songId, NoRows, "-")
  IN /\ IF access # OK
          THEN /\ response' = Response("deleteSong", credentialId, playlistId, access,
                                       "-", verifyPlaylistAccessQueries(playlistId),
                                       {songId})
               /\ UNCHANGED <<playlist_songs, pending>>
          ELSE IF deleted # OK
          THEN /\ response' = Response("deleteSong", credentialId, playlistId, deleted,
                                       "-", verifyPlaylistAccessQueries(playlistId) + 2,
                                       {songId})
               /\ UNCHANGED <<playlist_songs, pending>>
          ELSE /\ r \notin pending
               /\ Cardinality(pending) < MaxInFlight
               /\ ActivityRows + PendingWrites < MaxActivities
               /\ playlist_songs' = [playlist_songs EXCEPT ![playlistId][songId] = 0]
               /\ pending' = pending \cup {r}
               /\ UNCHANGED response
     /\ UNCHANGED <<catalog, users, songs, playlists, collaborations,
                    playlist_song_activities, cache, idSeq>>

\* the same request from deletePlaylistSongActivity on
deleteSongFromPlaylist_record(r) ==
  /\ r \in pending
  /\ r.op = "deleteSong"
  /\ playlist_song_activities' =
       deletePlaylistSongActivity(r.playlist, r.song, r.user)
  /\ cache' = songInvalidate(r.playlist)
  /\ pending' = pending \ {r}
  /\ response' = Response("deleteSong", r.user, r.playlist, OK, "-",
                          verifyPlaylistAccessQueries(r.playlist) + 3, {r.song})
  /\ UNCHANGED <<catalog, users, songs, playlists, collaborations, playlist_songs,
                 idSeq>>

\* GET /playlists/{playlistId}/songs up to the SELECT of the catch block; a
\* request refused or served from the cache ends here
getSongsFromPlaylist_query(credentialId, playlistId, fault) ==
  LET access == verifyPlaylistAccess(playlistId, credentialId)
      checked == verifyPlaylistAccessQueries(playlistId)
      playlist == getPlaylistById(playlistId)
      entry == cache.songs[playlistId]
      hit == cacheRead(entry, fault)
      r == InFlight("getSongs", credentialId, playlistId, playlists[playlistId],
                    "-", getSongsFromPlaylist_rows(playlistId), Lookup(entry, fault))
  IN /\ IF access # OK
          THEN /\ response' = Response("getSongs", credentialId, playlistId, access,
                                       "-", checked, NoData)
               /\ UNCHANGED pending
          ELSE IF hit # {}
          THEN /\ response' = ReadResponse("getSongs", credentialId, playlistId, OK,
                                           "cache", checked + 1, Lookup(entry, fault),
                                           {[playlist |-> playlist, songs |-> v] : v \in hit})
               /\ UNCHANGED pending
          ELSE /\ r \notin pending
               /\ Cardinality(pending) < MaxInFlight
               /\ pending' = pending \cup {r}
               /\ UNCHANGED response
     /\ UNCHANGED <<catalog, users, songs, playlists, collaborations, playlist_songs,
                    playlist_song_activities, cache, idSeq>>

\* the same request from cacheService.set on: the rows it read go under
\* songs:P and into the response
getSongsFromPlaylist_set(r) ==
  /\ r \in pending
  /\ r.op = "getSongs"
  /\ cache' = [cache EXCEPT !.songs[r.playlist] = cacheFill(r.rows)]
  /\ pending' = pending \ {r}
  /\ response' = ReadResponse("getSongs", r.user, r.playlist, OK, "db",
                              verifyPlaylistAccessQueries(r.playlist) + 2, r.lookup,
                              {[playlist |-> [id |-> r.playlist, owner |-> r.owner],
                                songs |-> r.rows]})
  /\ UNCHANGED <<catalog, users, songs, playlists, collaborations, playlist_songs,
                 playlist_song_activities, idSeq>>

\* GET /playlists/{playlistId}/activities.  The cache lookup comes first;
\* the access check is in the catch block only.
getPlaylistSongActivitiesHandler(credentialId, playlistId, fault) ==
  LET entry == cache.activities[playlistId]
      hit == cacheRead(entry, fault)
      access == verifyPlaylistAccess(playlistId, credentialId)
      checked == verifyPlaylistAccessQueries(playlistId)
      rows == getPlaylistSongActivities(playlistId)
  IN /\ IF hit # {}
          THEN /\ response' = ReadResponse("getActivities", credentialId, playlistId, OK,
                                           "cache", 0, Lookup(entry, fault), hit)
               /\ cache' = cache
          ELSE IF access # OK
          THEN /\ response' = ReadResponse("getActivities", credentialId, playlistId,
                                           access, "-", checked, Lookup(entry, fault),
                                           NoData)
               /\ cache' = cache
          ELSE /\ response' = ReadResponse("getActivities", credentialId, playlistId, OK,
                                           "db", checked + 1, Lookup(entry, fault), {rows})
               /\ cache' = [cache EXCEPT !.activities[playlistId] = cacheFill(rows)]
     /\ UNCHANGED <<catalog, pending, users, songs, playlists, collaborations, playlist_songs,
                    playlist_song_activities, idSeq>>

\* ------------------------------------------------------- CollaborationsHandler
\* POST /collaborations: owner check, then addCollaboration; no cache call
postCollaborationHandler(credentialId, playlistId, userId, valid) ==
  LET owner == verifyPlaylistOwner(playlistId, credentialId)
      added == addCollaboration(playlistId, userId)
      status == IF ~valid THEN ValidationError
                ELSE IF owner # OK THEN owner ELSE added
  IN /\ collaborations' = IF status = OK
                            THEN collaborationsInsert(playlistId, userId)
                            ELSE collaborations
     /\ response' = Response("postCollaboration", credentialId, playlistId, status, "-",
                             IF ~valid THEN 0 ELSE IF owner # OK THEN 1
                             ELSE IF added = NotFoundError THEN 2 ELSE 3,
                             {userId})
     /\ UNCHANGED <<catalog, pending, users, songs, playlists, playlist_songs,
                    playlist_song_activities, cache, idSeq>>

\* DELETE /collaborations: owner check, then deleteCollaboration; no cache call
deleteCollaborationHandler(credentialId, playlistId, userId, valid) ==
  LET owner == verifyPlaylistOwner(playlistId, credentialId)
      deleted == deleteCollaboration(playlistId, userId)
      status == IF ~valid THEN ValidationError
                ELSE IF owner # OK THEN owner
                ELSE deleted
  IN /\ collaborations' = IF status = OK
                            THEN collaborationsDelete(playlistId, userId)
                            ELSE collaborations
     /\ response' = Response("deleteCollaboration", credentialId, playlistId, status, "-",
                             IF ~valid THEN 0 ELSE IF owner # OK THEN 1 ELSE 2,
                             {userId})
     /\ UNCHANGED <<catalog, pending, users, songs, playlists, playlist_songs,
                    playlist_song_activities, cache, idSeq>>

\* ------------------------------------------------------- UsersHandler
\* the first id of NewUsers that has no row yet (nanoid never repeats)
nextUserId ==
  NewUsers[CHOOSE i \in 1 .. Len(NewUsers) :
             /\ NewUsers[i] \notin users
             /\ \A j \in 1 .. (i - 1) : NewUsers[j] \in users]

\* POST /users up to the end of verifyNewUsername: the payload check and the
\* SELECT.  A request that passes is between its check and its INSERT.
postUserHandler(username, valid) ==
  LET verified == verifyNewUsername(username)
  IN /\ IF ~valid
          THEN /\ response' = Response("postUser", "-", 0, ValidationError, "-", 0,
                                       {username})
               /\ UNCHANGED registering
          ELSE IF verified # OK
          THEN /\ response' = Response("postUser", "-", 0, verified, "-", 1, {username})
               /\ UNCHANGED registering
          ELSE /\ registering[username] < MaxInFlight
               /\ registering' = [registering EXCEPT ![username] = @ + 1]
               /\ UNCHANGED response
     /\ UNCHANGED <<playlistStore, sessions, users, usernames, albums, user_album_likes,
                    liking, queues>>

\* the rest of addUser: the INSERT, which the store rejects when the
\* username has a row by now, and the response
addUserInsert(username) ==
  /\ registering[username] > 0
  /\ registering' = [registering EXCEPT ![username] = @ - 1]
  /\ IF usernameUnique(username)
       THEN /\ users # AccountIds
            /\ users' = users \cup {nextUserId}
            /\ usernames' = [usernames EXCEPT ![nextUserId] = username]
            /\ response' = Response("postUser", nextUserId, 0, OK, "-", 2, {username})
       ELSE /\ response' = Response("postUser", "-", 0, ServerError, "-", 2, {username})
            /\ UNCHANGED <<users, usernames>>
  /\ UNCHANGED <<playlistStore, sessions, albums, user_album_likes, liking, queues>>

\* ------------------------------------------------------- AlbumsHandler
\* SELECT id FROM user_album_likes WHERE album_id = $1, counted
albumLikesCount(albumId) ==
  SumOver([u \in AccountIds |-> user_album_likes[u][albumId]], AccountIds)

\* POST /albums/{id}/likes up to the end of verifyLikeAlbum: getAlbumById
\* and the SELECT.  A request that passes is between its check and its
\* INSERT.
postLikeAlbumHandler(userId, id) ==
  LET found == getAlbumById(id)
      verified == verifyLikeAlbum(userId, id)
  IN /\ IF found # OK
          THEN /\ response' = Response("postLike", userId, 0, found, "-", 1, {id})
               /\ UNCHANGED liking
          ELSE IF verified # OK
          THEN /\ response' = Response("postLike", userId, 0, verified, "-", 3, {id})
               /\ UNCHANGED liking
          ELSE /\ liking[userId][id] < MaxInFlight
               /\ liking' = [liking EXCEPT ![userId][id] = @ + 1]
               /\ UNCHANGED response
     /\ UNCHANGED <<playlistStore, sessions, users, usernames, registering, albums,
                    user_album_likes, queues>>

\* the rest of addLikeAlbum: the INSERT, which the store rejects when the
\* pair has a row by now, and the response
addLikeAlbumInsert(userId, albumId) ==
  /\ liking[userId][albumId] > 0
  /\ liking' = [liking EXCEPT ![userId][albumId] = @ - 1]
  /\ IF likesUnique(userId, albumId)
       THEN /\ user_album_likes' = likesInsert(userId, albumId)
            /\ response' = Response("postLike", userId, 0, OK, "-", 4, {albumId})
       ELSE /\ response' = Response("postLike", userId, 0, ServerError, "-", 4, {albumId})
            /\ UNCHANGED user_album_likes
  /\ UNCHANGED <<playlistStore, sessions, users, usernames, registering, albums, queues>>

\* GET /albums/{id}/likes
getLikedAlbumsHandler(id) ==
  /\ response' = Response("getLikes", "-", 0, OK, "-", 1,
                          {[album |-> id, likes |-> albumLikesCount(id)]})
  /\ UNCHANGED <<playlistStore, sessions, users, usernames, registering, albums,
                 user_album_likes, liking, queues>>

\* DELETE /albums/{id}/likes
deleteLikeAlbumHandler(userId, id) ==
  LET deleted == deleteLikeAlbum(userId, id)
  IN /\ user_album_likes' = IF deleted = OK THEN likesDelete(userId, id)
                              ELSE user_album_likes
     /\ response' = Response("deleteLike", userId, 0, deleted, "-", 1, {id})
     /\ UNCHANGED <<playlistStore, sessions, users, usernames, registering, albums,
                    liking, queues>>

\* ------------------------------------------------------- ExportsHandler
\* producerService.sendMessage(queue, message): the queues afterwards
sendMessage(queue, message) ==
  [queues EXCEPT ![queue] = Append(@, message)]

\* POST /export/playlists/{playlistId}
postExportPlaylistHandler(credentialId, playlistId, targetEmail, valid) ==
  LET owner == verifyPlaylistOwner(playlistId, credentialId)
      message == [playlistId |-> playlistId, targetEmail |-> targetEmail]
  IN /\ IF ~valid
          THEN /\ response' = Response("postExport", credentialId, playlistId,
                                       ValidationError, "-", 0, {targetEmail})
               /\ UNCHANGED queues
          ELSE IF owner # OK
          THEN /\ response' = Response("postExport", credentialId, playlistId, owner,
                                       "-", 1, {targetEmail})
               /\ UNCHANGED queues
          ELSE /\ Len(queues["export:playlist"]) < MaxMessages
               /\ queues' = sendMessage("export:playlist", JSONstringify(message))
               /\ response' = Response("postExport", credentialId, playlistId, OK,
                                       "-", 1, {targetEmail})
     /\ UNCHANGED <<playlistStore, sessions, users, usernames, registering, albums,
                    user_album_likes, liking>>

\* ------------------------------------------------------- AuthenticationsHandler
\* the response of an authentication request: token is the refresh token the
\* request carried (PUT, DELETE) or was given (POST)
AuthResponse(op, user, status, queries, token, data) ==
  [op |-> op, user |-> user, playlist |-> 0, status |-> status, source |-> "-",
   queries |-> queries, lookup |-> "-", data |-> data, token |-> token]

\* POST /authentications: credential check, two tokens generated, the refresh
\* token stored
postAuthenticationHandler(username, match, valid) ==
  LET verified == verifyUserCredential(username, match)
      id == credentialUser(username)
      accessToken == generateAccessToken(id)
      refreshToken == generateRefreshToken(id)
  IN /\ IF ~valid
          THEN /\ response' = AuthResponse("postAuthentication", "-", ValidationError,
                                           0, NoToken, NoData)
               /\ UNCHANGED <<authentications, issued>>
          ELSE IF verified # OK
          THEN /\ response' = AuthResponse("postAuthentication", "-", verified,
                                           1, NoToken, NoData)
               /\ UNCHANGED <<authentications, issued>>
          ELSE /\ TokenRows < MaxTokenRows
               /\ authentications' = addRefreshToken(refreshToken)
               /\ issued' = issued \cup {refreshToken}
               /\ response' = AuthResponse("postAuthentication", id, OK, 2,
                                           refreshToken, {accessToken, refreshToken})
     /\ UNCHANGED <<playlistStore, users, usernames, registering, albums,
                    user_album_likes, liking, queues, now>>

\* PUT /authentications: the token must have a row, then a valid signature;
\* the access token is generated for the id of its payload
putAuthenticationHandler(refreshToken, valid) ==
  LET stored == verifyRefreshToken(refreshToken)
      signed == tokenManager_verifyRefreshToken(refreshToken)
      status == IF ~valid THEN ValidationError
                ELSE IF stored # OK THEN stored
                ELSE signed
  IN /\ response' = AuthResponse("putAuthentication",
                                 IF status = OK THEN refreshToken.id ELSE "-",
                                 status, IF ~valid THEN 0 ELSE 1, refreshToken,
                                 IF status = OK
                                   THEN {generateAccessToken(refreshToken.id)}
                                   ELSE NoData)
     /\ UNCHANGED <<playlistStore, sessions, users, usernames, registering, albums,
                    user_album_likes, liking, queues>>

\* DELETE /authentications: the token must have a row, then its rows go
deleteAuthenticationHandler(refreshToken, valid) ==
  LET stored == verifyRefreshToken(refreshToken)
      status == IF ~valid THEN ValidationError ELSE stored
  IN /\ authentications' = IF status = OK THEN deleteRefreshToken(refreshToken)
                            ELSE authentications
     /\ response' = AuthResponse("deleteAuthentication", "-", status,
                                 IF ~valid THEN 0 ELSE IF status = OK THEN 2 ELSE 1,
                                 refreshToken, NoData)
     /\ UNCHANGED <<playlistStore, users, usernames, registering, albums,
                    user_album_likes, liking, queues, issued, now>>

\* what a client can send as a refresh token: one a login gave out, or a
\* string the refresh key never signed
Presentable == issued \cup {t \in Tokens : t.key # refreshKey}

\* a second passes on the clock that stamps the tokens
tick ==
  /\ now < MaxClock
  /\ now' = now + 1
  /\ response' = Response("tick", "-", 0, OK, "-", 0, NoData)
  /\ UNCHANGED <<playlistStore, users, usernames, registering, albums,
                 user_album_likes, liking, queues, authentications, issued>>

\* ------------------------------------------------------- response mapper
\* the error classes that extend ClientError
ClientErrors == {ValidationError, InvariantError, NotFoundError,
                 AuthenticationError, AuthorizationError}

\* the statusCode each ClientError class is constructed with
statusCode(error) ==
  IF error = NotFoundError THEN 404
  ELSE IF error = AuthenticationError THEN 401
  ELSE IF error = AuthorizationError THEN 403
  ELSE 400

\* request.response as the onPreResponse extension finds it: the handler's
\* own response, or the error it threw.  An error that is not a ClientError
\* left a store or library call and is a server fault.
thrown(status) ==
  IF status = OK
    THEN [isError |-> FALSE, isClientError |-> FALSE, isServer |-> FALSE,
          kind |-> OK, status |-> "success", code |-> 200]
    ELSE [isError |-> TRUE, isClientError |-> status \in ClientErrors,
          isServer |-> status \notin ClientErrors,
          kind |-> status, status |-> "-", code |-> 500]

onPreResponse_continue(r) == r

\* the onPreResponse extension of the server: the response the client gets
onPreResponse(r) ==
  IF r.isError
    THEN IF r.isClientError
           THEN [r EXCEPT !.status = "fail", !.code = statusCode(r.kind)]
         ELSE IF ~r.isServer
           THEN r
         ELSE [r EXCEPT !.status = "fail", !.code = 500]
    ELSE r

\* the HTTP response to the request that ended last
reply == onPreResponse(thrown(response.status))

\* ------------------------------------------------------- Redis
\* a key reaches the expiry it was set with and is gone
cacheExpire(kind, k) ==
  /\ cache[kind][k] # {}
  /\ cache' = [cache EXCEPT ![kind][k] = {}]
  /\ response' = Response("expire", "-", 0, OK, "-", 0, NoData)
  /\ UNCHANGED <<catalog, pending, users, songs, playlists, collaborations, playlist_songs,
                 playlist_song_activities, idSeq>>

\* requests on playlists and collaborations only
NextAccess ==
  \/ \E c \in users, valid \in BOOLEAN : postPlaylistHandler(c, valid)
  \/ \E c \in users, p \in PlaylistIds : deletePlaylistHandler(c, p)
  \/ \E c \in users, p \in PlaylistIds, u \in UserIds, valid \in BOOLEAN :
       postCollaborationHandler(c, p, u, valid)
  \/ \E c \in users, p \in PlaylistIds, u \in UserIds, valid \in BOOLEAN :
       deleteCollaborationHandler(c, p, u, valid)

SpecAccess == Init /\ [][NextAccess]_vars

\* the playlist list read beside the requests that change what it shows
NextLists ==
  \/ \E c \in users : postPlaylistHandler(c, TRUE)
  \/ \E c \in users : \E f \in Faults(cache.playlists[c]) : getPlaylistsHandler(c, f)
  \/ \E c \in users, p \in PlaylistIds : deletePlaylistHandler(c, p)
  \/ \E c \in users, p \in PlaylistIds, u \in RegisteredUsers :
       postCollaborationHandler(c, p, u, TRUE)
  \/ \E c \in users, p \in PlaylistIds, u \in RegisteredUsers :
       deleteCollaborationHandler(c, p, u, TRUE)

SpecLists == Init /\ [][NextLists]_vars

\* the requests on the songs of a playlist, await by await, beside the
\* creation and sharing of playlists
NextRace ==
  \/ \E c \in users : postPlaylistHandler(c, TRUE)
  \/ \E c \in users, p \in PlaylistIds, u \in RegisteredUsers :
       postCollaborationHandler(c, p, u, TRUE)
  \/ \E c \in users, p \in PlaylistIds, s \in CatalogSongs :
       postSongToPlaylist_insert(c, p, s)
  \/ \E r \in pending : postSongToPlaylist_record(r)
  \/ \E c \in users, p \in PlaylistIds, s \in CatalogSongs :
       deleteSongFromPlaylist_delete(c, p, s)
  \/ \E r \in pending : deleteSongFromPlaylist_record(r)
  \/ \E c \in users, p \in PlaylistIds : getSongsFromPlaylist_query(c, p, "none")
  \/ \E r \in pending : getSongsFromPlaylist_set(r)

SpecRace == Init /\ [][NextRace]_vars

\* logins, token refreshes and logouts while the clock runs
NextAuth ==
  \/ \E n \in Usernames, match, valid \in BOOLEAN :
       postAuthenticationHandler(n, match, valid)
  \/ \E t \in Presentable, valid \in BOOLEAN : putAuthenticationHandler(t, valid)
  \/ \E t \in Presentable, valid \in BOOLEAN : deleteAuthenticationHandler(t, valid)
  \/ tick

SpecAuth == Init /\ [][NextAuth]_vars

\* logins beside the requests on playlists and collaborations: every error
\* kind the handlers throw
NextErrors ==
  \/ NextAccess
  \/ \E n \in Usernames, match, valid \in BOOLEAN :
       postAuthenticationHandler(n, match, valid)

SpecErrors == Init /\ [][NextErrors]_vars

\* the three cached reads in front of playlists and songs that are created,
\* filled and deleted, and key expiry
NextCache ==
  \/ \E c \in users : postPlaylistHandler(c, TRUE)
  \/ \E c \in users : \E f \in Faults(cache.playlists[c]) : getPlaylistsHandler(c, f)
  \/ \E c \in users, p \in PlaylistIds : deletePlaylistHandler(c, p)
  \/ \E c \in users, p \in PlaylistIds, s \in CatalogSongs :
       postSongToPlaylist(c, p, s, TRUE, TRUE)
  \/ \E c \in users, p \in PlaylistIds : \E f \in Faults(cache.songs[p]) :
       getSongsFromPlaylist(c, p, f)
  \/ \E c \in users, p \in PlaylistIds : \E f \in Faults(cache.activities[p]) :
       getPlaylistSongActivitiesHandler(c, p, f)
  \/ \E u \in RegisteredUsers : cacheExpire("playlists", u)
  \/ \E p \in PlaylistIds : cacheExpire("songs", p)
  \/ \E p \in PlaylistIds : cacheExpire("activities", p)

SpecCache == Init /\ [][NextCache]_vars

\* the songs of a playlist: who may read them, and every request that
\* changes the songs or the access to them
NextSongs ==
  \/ \E c \in users : postPlaylistHandler(c, TRUE)
  \/ \E c \in users, p \in PlaylistIds : deletePlaylistHandler(c, p)
  \/ \E c \in users, p \in PlaylistIds, s \in CatalogSongs :
       postSongToPlaylist(c, p, s, TRUE, TRUE)
  \/ \E c \in users, p \in PlaylistIds : \E f \in Faults(cache.songs[p]) :
       getSongsFromPlaylist(c, p, f)
  \/ \E c \in users, p \in PlaylistIds, s \in CatalogSongs :
       deleteSongFromPlaylist(c, p, s, TRUE, TRUE)
  \/ \E c \in users, p \in PlaylistIds, u \in RegisteredUsers :
       postCollaborationHandler(c, p, u, TRUE)
  \/ \E c \in users, p \in PlaylistIds, u \in RegisteredUsers :
       deleteCollaborationHandler(c, p, u, TRUE)
  \/ \E p \in PlaylistIds : cacheExpire("songs", p)

SpecSongs == Init /\ [][NextSongs]_vars

\* the requests that write in more than one step, with every song id and
\* every outcome of the activity INSERT
NextWrites ==
  \/ \E c \in users : postPlaylistHandler(c, TRUE)
  \/ \E c \in users, p \in PlaylistIds : deletePlaylistHandler(c, p)
  \/ \E c \in users, p \in PlaylistIds, s \in SongIds, logged \in BOOLEAN :
       postSongToPlaylist(c, p, s, TRUE, logged)
  \/ \E c \in users, p \in PlaylistIds, s \in SongIds, logged \in BOOLEAN :
       deleteSongFromPlaylist(c, p, s, TRUE, logged)

SpecWrites == Init /\ [][NextWrites]_vars

\* registrations, any number of them between check and INSERT at a time
NextUsers ==
  \/ \E n \in Usernames, valid \in BOOLEAN : postUserHandler(n, valid)
  \/ \E n \in Usernames : addUserInsert(n)

SpecUsers == Init /\ [][NextUsers]_vars

\* likes, unlikes and like counts, the likes interleaving between check and
\* INSERT
NextLikes ==
  \/ \E u \in users, a \in AlbumIds : postLikeAlbumHandler(u, a)
  \/ \E u \in users, a \in AlbumIds : addLikeAlbumInsert(u, a)
  \/ \E a \in AlbumIds : getLikedAlbumsHandler(a)
  \/ \E u \in users, a \in AlbumIds : deleteLikeAlbumHandler(u, a)

SpecLikes == Init /\ [][NextLikes]_vars

\* export requests on playlists that are created, shared and deleted
NextExports ==
  \/ \E c \in users : postPlaylistHandler(c, TRUE)
  \/ \E c \in users, p \in PlaylistIds : deletePlaylistHandler(c, p)
  \/ \E c \in users, p \in PlaylistIds, u \in RegisteredUsers :
       postCollaborationHandler(c, p, u, TRUE)
  \/ \E c \in users, p \in PlaylistIds, e \in TargetEmails, valid \in BOOLEAN :
       postExportPlaylistHandler(c, p, e, valid)

SpecExports == Init /\ [][NextExports]_vars

\* every request of the modelled endpoints
Next ==
  \/ \E c \in users, valid \in BOOLEAN : postPlaylistHandler(c, valid)
  \/ \E c \in users : \E f \in Faults(cache.playlists[c]) : getPlaylistsHandler(c, f)
  \/ \E c \in users, p \in PlaylistIds : deletePlaylistHandler(c, p)
  \/ \E c \in users, p \in PlaylistIds, s \in SongIds, valid, logged \in BOOLEAN :
       postSongToPlaylist(c, p, s, valid, logged)
  \/ \E c \in users, p \in PlaylistIds : \E f \in Faults(cache.songs[p]) :
       getSongsFromPlaylist(c, p, f)
  \/ \E c \in users, p \in PlaylistIds, s \in SongIds, valid, logged \in BOOLEAN :
       deleteSongFromPlaylist(c, p, s, valid, logged)
  \/ \E c \in users, p \in PlaylistIds : \E f \in Faults(cache.activities[p]) :
       getPlaylistSongActivitiesHandler(c, p, f)
  \/ \E c \in users, p \in PlaylistIds, u \in UserIds, valid \in BOOLEAN :
       postCollaborationHandler(c, p, u, valid)
  \/ \E c \in users, p \in PlaylistIds, u \in UserIds, valid \in BOOLEAN :
       deleteCollaborationHandler(c, p, u, valid)
  \/ \E u \in AccountIds : cacheExpire("playlists", u)
  \/ \E p \in PlaylistIds : cacheExpire("songs", p)
  \/ \E p \in PlaylistIds : cacheExpire("activities", p)
  \/ \E n \in Usernames, valid \in BOOLEAN : postUserHandler(n, valid)
  \/ \E n \in Usernames : addUserInsert(n)
  \/ \E u \in users, a \in AlbumIds : postLikeAlbumHandler(u, a)
  \/ \E u \in users, a \in AlbumIds : addLikeAlbumInsert(u, a)
  \/ \E a \in AlbumIds : getLikedAlbumsHandler(a)
  \/ \E u \in users, a \in AlbumIds : deleteLikeAlbumHandler(u, a)
  \/ \E c \in users, p \in PlaylistIds, e \in TargetEmails, valid \in BOOLEAN :
       postExportPlaylistHandler(c, p, e, valid)
  \/ \E n \in Usernames, match, valid \in BOOLEAN :
       postAuthenticationHandler(n, match, valid)
  \/ \E t \in Presentable, valid \in BOOLEAN : putAuthenticationHandler(t, valid)
  \/ \E t \in Presentable, valid \in BOOLEAN : deleteAuthenticationHandler(t, valid)
  \/ tick
  \/ \E c \in users, p \in PlaylistIds, s \in CatalogSongs :
       postSongToPlaylist_insert(c, p, s)
  \/ \E r \in pending : postSongToPlaylist_record(r)
  \/ \E c \in users, p \in PlaylistIds, s \in CatalogSongs :
       deleteSongFromPlaylist_delete(c, p, s)
  \/ \E r \in pending : deleteSongFromPlaylist_record(r)
  \/ \E c \in users, p \in PlaylistIds : \E f \in Faults(cache.songs[p]) :
       getSongsFromPlaylist_query(c, p, f)
  \/ \E r \in pending : getSongsFromPlaylist_set(r)

Spec == Init /\ [][Next]_vars

\* ================================================================ claims

\* C1, as claimed: on an existing playlist verifyPlaylistAccess succeeds
\* exactly for the owner and for the users with a collaboration row, and
\* fails with AuthorizationError for everyone else.
C1_AccessIffOwnerOrCollaborator ==
  \A p \in PlaylistIds, u \in users :
    playlists[p] # NoRow =>
      IF playlists[p] = u \/ collaborations[p][u] > 0
        THEN verifyPlaylistAccess(p, u) = OK
        ELSE verifyPlaylistAccess(p, u) = AuthorizationError

\* C2: for a playlist id without a row verifyPlaylistAccess fails with
\* NotFoundError for every caller, also when collaboration rows for the id
\* remain, and the song handlers that call it answer NotFoundError.
C2_MissingPlaylistNotFound ==
  /\ \A p \in PlaylistIds, u \in UserIds :
       playlists[p] = NoRow => verifyPlaylistAccess(p, u) = NotFoundError
  /\ (/\ response.op \in {"getSongs", "postSong", "deleteSong"}
      /\ response.status # ValidationError
      /\ playlists[response.playlist] = NoRow)
       => response.status = NotFoundError

\* a deleted playlist whose owner and collaborator rows are still there, and
\* a fetch of its songs that was answered NotFoundError
C2_Witness ==
  /\ response.op = "getSongs"
  /\ response.status = NotFoundError
  /\ response.playlist <= idSeq
  /\ playlists[response.playlist] = NoRow
  /\ \A u \in RegisteredUsers : collaborations[response.playlist][u] > 0

\* C3, as claimed: every existing playlist has a collaboration row for its
\* owner.
C3_OwnerHasCollaborationRow ==
  \A p \in PlaylistIds :
    playlists[p] # NoRow => collaborations[p][playlists[p]] > 0

\* C4: a successful POST /playlists adds one playlist row under a new id and
\* one collaboration row (new id, owner); no other playlist or collaboration
\* row appears or changes.
C4_AddPlaylistRows ==
  [][(response'.op = "postPlaylist" /\ response'.status = OK) =>
       LET id == response'.playlist
           owner == response'.user
       IN /\ playlists[id] = NoRow
          /\ \A u \in UserIds : collaborations[id][u] = 0
          /\ playlists'[id] = owner
          /\ \A p \in PlaylistIds \ {id} : playlists'[p] = playlists[p]
          /\ collaborations'[id][owner] = 1
          /\ \A u \in UserIds \ {owner} : collaborations'[id][u] = 0
          /\ \A p \in PlaylistIds \ {id} : collaborations'[p] = collaborations[p]
    ]_vars

\* a second playlist was created while the first has collaboration rows
C4_Witness ==
  /\ response.op = "postPlaylist"
  /\ response.status = OK
  /\ \E p \in PlaylistIds \ {response.playlist}, u \in RegisteredUsers :
       playlists[p] # u /\ collaborations[p][u] > 0

\* C5, as claimed: a response served from the cache has issued no query to
\* the primary store.
C5_HitIssuesNoQuery ==
  response.source = "cache" => response.queries = 0

\* the cache entry under the key of the read that was answered last
ReadKeyEntry ==
  CASE response.op = "getPlaylists" -> cache.playlists[response.user]
    [] response.op = "getSongs" -> cache.songs[response.playlist]
    [] response.op = "getActivities" -> cache.activities[response.playlist]

\* the primary-store rows that read asks for
ReadStoreRows ==
  CASE response.op = "getPlaylists" -> getPlaylists(response.user)
    [] response.op = "getSongs" -> getSongsFromPlaylist_rows(response.playlist)
    [] response.op = "getActivities" -> getPlaylistSongActivities(response.playlist)

\* the payload a response built from those rows carries
ReadStorePayload ==
  IF response.op = "getSongs"
    THEN [playlist |-> [id |-> response.playlist,
                        owner |-> playlists[response.playlist]],
          songs |-> ReadStoreRows]
    ELSE ReadStoreRows

\* the read went to the primary store, answered with its rows and no cache
\* marker, and left them under its key with an expiry of 1800 seconds
Repopulated ==
  /\ response.status = OK
  /\ response.source = "db"
  /\ response.queries > 0
  /\ response.data = {ReadStorePayload}
  /\ ReadKeyEntry = {[value |-> [wellFormed |-> TRUE, json |-> ReadStoreRows],
                      ex |-> 1800]}

\* the caller of the last request fails the access check on its playlist
ReadAccessDenied ==
  verifyPlaylistAccess(response.playlist, response.user) # OK

C7_FaultIsMiss ==
  response.lookup \in {"throws", "malformed"} =>
    IF response.op = "getActivities" /\ ReadAccessDenied
      THEN response.status = verifyPlaylistAccess(response.playlist, response.user)
      ELSE Repopulated

\* the songs of a playlist that has a song were read past a malformed value
C7_Witness ==
  /\ response.op = "getSongs"
  /\ response.lookup = "malformed"
  /\ response.status = OK
  /\ \E d \in response.data : \E s \in SongIds : d.songs[s] > 0

\* C8, as claimed: a request that changes what a cached read returns from
\* the primary store deletes the key of that read.
C8_MutationsInvalidate ==
  [][/\ \A u \in RegisteredUsers :
          getPlaylists(u)' # getPlaylists(u) => cache'.playlists[u] = {}
     /\ \A p \in PlaylistIds :
          getSongsFromPlaylist_rows(p)' # getSongsFromPlaylist_rows(p)
            => cache'.songs[p] = {}
     /\ \A p \in PlaylistIds :
          getPlaylistSongActivities(p)' # getPlaylistSongActivities(p)
            => cache'.activities[p] = {}
    ]_vars

\* C9: a successful DELETE /playlists/{P} by owner O leaves playlists:O,
\* songs:P and activities:P absent and every other cache key as it was.
C9_DeleteInvalidatesThreeKeys ==
  [][(response'.op = "deletePlaylist" /\ response'.status = OK) =>
       LET P == response'.playlist
           O == response'.user
       IN /\ cache'.playlists[O] = {}
          /\ cache'.songs[P] = {}
          /\ cache'.activities[P] = {}
          /\ \A u \in RegisteredUsers \ {O} : cache'.playlists[u] = cache.playlists[u]
          /\ \A p \in PlaylistIds \ {P} :
               /\ cache'.songs[p] = cache.songs[p]
               /\ cache'.activities[p] = cache.activities[p]
    ]_vars

\* a playlist was deleted while another user's list and another playlist's
\* songs and activities stay cached
C9_Witness ==
  /\ response.op = "deletePlaylist"
  /\ response.status = OK
  /\ \E u \in RegisteredUsers \ {response.user} : cache.playlists[u] # {}
  /\ \E p \in PlaylistIds \ {response.playlist} :
       cache.songs[p] # {} /\ cache.activities[p] # {}

\* C10: GET /playlists/{P}/songs by a user who is neither owner nor
\* collaborator of the existing playlist P fails with AuthorizationError,
\* cached or not; by a user the owner has added as collaborator it succeeds
\* and returns the songs of P.
C10_SongsNeedAccess ==
  (response.op = "getSongs" /\ playlists[response.playlist] # NoRow) =>
    LET P == response.playlist
        U == response.user
    IN /\ (playlists[P] # U /\ collaborations[P][U] = 0)
            => response.status = AuthorizationError /\ response.data = {}
       /\ (playlists[P] # U /\ collaborations[P][U] > 0)
            => /\ response.status = OK
               /\ \A d \in response.data : d.songs = getSongsFromPlaylist_rows(P)
               /\ response.data # {}

\* a collaborator fetched the songs of a playlist that has a song and got
\* them from the cache
C10_Witness ==
  /\ response.op = "getSongs"
  /\ response.status = OK
  /\ response.source = "cache"
  /\ playlists[response.playlist] \notin {NoRow, response.user}
  /\ \E d \in response.data : \E s \in SongIds : d.songs[s] > 0

\* C11: a successful add of an existing song S to playlist P by user U
\* appends exactly the row (S, U, add) to the log of P, and the successful
\* remove of S by U that follows it appends exactly the row (S, U, delete)
\* behind it; after the remove the songs of P read from the store hold no S
\* and songs:P is absent, and every successful GET songs returns the songs
\* of the store.
C11_AddThenRemove ==
  [][/\ (response'.op = "postSong" /\ response'.status = OK) =>
          LET P == response'.playlist
              U == response'.user
          IN \A S \in response'.data :
               /\ playlist_song_activities'[P] =
                    Append(playlist_song_activities[P], Activity(S, U, "add"))
               /\ \A p \in PlaylistIds \ {P} :
                    playlist_song_activities'[p] = playlist_song_activities[p]
     /\ (/\ response.op = "postSong" /\ response.status = OK
         /\ response'.op = "deleteSong" /\ response'.status = OK
         /\ response'.user = response.user
         /\ response'.playlist = response.playlist
         /\ response'.data = response.data) =>
          LET P == response.playlist
              U == response.user
              before == playlist_song_activities[P]
          IN \A S \in response.data :
               /\ Len(before) > 0
               /\ before[Len(before)] = Activity(S, U, "add")
               /\ playlist_song_activities'[P] = Append(before, Activity(S, U, "delete"))
               /\ \A p \in PlaylistIds \ {P} :
                    playlist_song_activities'[p] = playlist_song_activities[p]
               /\ getSongsFromPlaylist_rows(P)'[S] = 0
               /\ cache'.songs[P] = {}
     /\ (response'.op = "getSongs" /\ response'.status = OK) =>
          /\ response'.data # {}
          /\ \A d \in response'.data, p \in PlaylistIds :
               p = response'.playlist => d.songs = getSongsFromPlaylist_rows(p)'
    ]_vars

\* a collaborator added a catalog song to a playlist and removed it again:
\* the log of the playlist is the add row and the delete row
C11_Witness ==
  /\ response.op = "deleteSong"
  /\ response.status = OK
  /\ playlists[response.playlist] \notin {NoRow, response.user}
  /\ \E S \in response.data :
       /\ S \in songs
       /\ playlist_song_activities[response.playlist] =
            <<Activity(S, response.user, "add"), Activity(S, response.user, "delete")>>
       /\ playlist_songs[response.playlist][S] = 0

\* C12, as claimed: a create playlist, add song, remove song or delete
\* playlist request that ends in failure leaves every row of the primary
\* store as it was before the request.
C12_FailureChangesNothing ==
  [][(/\ response'.op \in {"postPlaylist", "postSong", "deleteSong", "deletePlaylist"}
      /\ response'.status # OK) =>
       UNCHANGED <<users, songs, playlists, collaborations, playlist_songs,
                   playlist_song_activities>>
    ]_vars

\* C13, as claimed: an add of a song id that has no row in table songs, by
\* a caller with access to the playlist, fails with NotFoundError, inserts
\* no playlist_songs row and records no activity row.
C13_UnknownSongNotFound ==
  [][(/\ response'.op = "postSong"
      /\ response'.status # ValidationError
      /\ verifyPlaylistAccess(response'.playlist, response'.user) = OK
      /\ \E S \in response'.data : ~verifySongExists(S)) =>
       /\ response'.status = NotFoundError
       /\ UNCHANGED <<playlist_songs, playlist_song_activities>>
    ]_vars

\* C14: a like of album a by user u that finds a row (u, a) at its check
\* fails with InvariantError and changes no like row, and no like gets past
\* its check while such a row exists; a like that succeeds found no row
\* (u, a) and adds exactly that one row.
C14_LikeOnce ==
  [][\A u \in AccountIds, a \in AlbumIds :
       /\ (/\ response'.op = "postLike" /\ response'.user = u
           /\ response'.data = {a}
           /\ UNCHANGED liking
           /\ user_album_likes[u][a] > 0) =>
            /\ response'.status = InvariantError
            /\ UNCHANGED user_album_likes
       /\ liking'[u][a] > liking[u][a] =>
            /\ user_album_likes[u][a] = 0
            /\ UNCHANGED user_album_likes
       /\ (/\ liking'[u][a] < liking[u][a]
           /\ response'.status = OK) =>
            /\ response'.op = "postLike" /\ response'.user = u
            /\ response'.data = {a}
            /\ user_album_likes[u][a] = 0
            /\ user_album_likes' = [user_album_likes EXCEPT ![u][a] = 1]
       /\ (/\ liking'[u][a] < liking[u][a]
           /\ response'.status # OK) =>
            UNCHANGED user_album_likes
    ]_vars

\* a like of an album the user already likes was refused, while the other
\* user likes the same album and this user likes the other album too
C14_Witness ==
  /\ response.op = "postLike"
  /\ response.status = InvariantError
  /\ \E a \in response.data :
       /\ user_album_likes[response.user][a] = 1
       /\ \E u \in users \ {response.user} : user_album_likes[u][a] = 1
       /\ \E b \in albums \ {a} : user_album_likes[response.user][b] = 1

\* C15: an unlike of album a by user u succeeds exactly when a row (u, a)
\* exists, and then removes the rows of that pair and no other; otherwise it
\* fails with NotFoundError and changes nothing.  An unlike of the same pair
\* right after a successful one fails with NotFoundError.
C15_UnlikeOnce ==
  [][\A u \in AccountIds, a \in AlbumIds :
       (/\ response'.op = "deleteLike" /\ response'.user = u
        /\ response'.data = {a}
        /\ UNCHANGED liking) =>
         /\ IF user_album_likes[u][a] > 0
              THEN /\ response'.status = OK
                   /\ user_album_likes' = [user_album_likes EXCEPT ![u][a] = 0]
              ELSE /\ response'.status = NotFoundError
                   /\ UNCHANGED user_album_likes
         /\ (/\ response.op = "deleteLike" /\ response.status = OK
             /\ response.user = u /\ response.data = {a}) =>
              /\ response'.status = NotFoundError
              /\ UNCHANGED user_album_likes
    ]_vars

\* a like was removed while the other user's like of the album and this
\* user's like of the other album stay
C15_Witness ==
  /\ response.op = "deleteLike"
  /\ response.status = OK
  /\ \E a \in response.data :
       /\ user_album_likes[response.user][a] = 0
       /\ \E u \in users \ {response.user} : user_album_likes[u][a] = 1
       /\ \E b \in albums \ {a} : user_album_likes[response.user][b] = 1

\* C16: whatever way like and unlike requests interleave, table
\* user_album_likes holds at most one row per (user, album), and a like count
\* that is returned is the number of users who like the album.
C16_OneLikePerUser ==
  /\ \A u \in AccountIds, a \in AlbumIds : user_album_likes[u][a] <= 1
  /\ \A a \in AlbumIds :
       albumLikesCount(a) = Cardinality({u \in AccountIds : user_album_likes[u][a] > 0})
  /\ response.op = "getLikes" =>
       \A d \in response.data :
         d.likes = Cardinality({u \in AccountIds : user_album_likes[u][d.album] > 0})

\* two likes of one pair were past their check together: one inserted the
\* row, the INSERT of the other was refused, and the row is there once
C16_Witness ==
  /\ response.op = "postLike"
  /\ response.status = ServerError
  /\ \E a \in response.data :
       /\ user_album_likes[response.user][a] = 1
       /\ albumLikesCount(a) = 2

\* C17: table collaborations holds at most one row per (playlist, user) in
\* every reachable state; a POST /collaborations by the owner for a user who
\* has a row already, the owner included, adds none.
C17_OneCollaborationPerUser ==
  /\ \A p \in PlaylistIds, u \in UserIds : collaborations[p][u] <= 1
  /\ (response.op = "postCollaboration" /\ response.status = OK) =>
       \A u \in response.data : collaborations[response.playlist][u] = 1

\* the owner posted a collaboration for themselves on a playlist that has a
\* second collaborator: the request was refused and each has one row
C17_Witness ==
  /\ response.op = "postCollaboration"
  /\ response.status = ServerError
  /\ response.data = {response.user}
  /\ playlists[response.playlist] = response.user
  /\ \A u \in RegisteredUsers : collaborations[response.playlist][u] = 1

\* the stored users that hold username n
Holders(n) == {u \in users : usernames[u] = n}

\* C18: a registration whose check finds its username held by a stored user
\* fails with InvariantError and adds no user, and none gets past its check
\* while the username is held; an INSERT that finds the username held by
\* then adds no user either; so no two stored users share a username,
\* however registrations of one username interleave.
C18_UsernameUnique ==
  [][/\ \A u, v \in users' : u # v => usernames'[u] # usernames'[v]
     /\ \A n \in Usernames :
          /\ (/\ response'.op = "postUser" /\ response'.data = {n}
              /\ response'.status # ValidationError
              /\ UNCHANGED registering
              /\ Holders(n) # {}) =>
               /\ response'.status = InvariantError
               /\ UNCHANGED <<users, usernames>>
          /\ registering'[n] > registering[n] =>
               /\ Holders(n) = {}
               /\ UNCHANGED <<users, usernames>>
          /\ (registering'[n] < registering[n] /\ Holders(n) # {}) =>
               /\ response'.status \notin {OK, ValidationError}
               /\ UNCHANGED <<users, usernames>>
          /\ (registering'[n] < registering[n] /\ Holders(n) = {}) =>
               /\ response'.status = OK
               /\ Cardinality(Holders(n)') = 1
               /\ Cardinality(users') = Cardinality(users) + 1
    ]_vars

\* two registrations of one username were past their check together: one
\* inserted its user, the INSERT of the other was refused
C18_Witness ==
  /\ response.op = "postUser"
  /\ response.status = ServerError
  /\ \E n \in response.data : Holders(n) \cap NewUserIds # {}
  /\ Cardinality(users) > Cardinality(RegisteredUsers)

\* C19: no request changes or removes a row of the activity log: the log of
\* every playlist before a step is the head of its log after the step, also
\* when the playlist is deleted or a collaborator removed.  The log grows
\* only by a successful add or remove of a song, which puts one row behind
\* the rows of its playlist whether or not an equal row is there.
C19_LogAppendOnly ==
  [][\A p \in PlaylistIds :
       LET before == playlist_song_activities[p]
           after == playlist_song_activities'[p]
       IN /\ Len(after) >= Len(before)
          /\ SubSeq(after, 1, Len(before)) = before
          /\ after # before =>
               /\ response'.op \in {"postSong", "deleteSong"}
               /\ response'.status = OK
               /\ response'.playlist = p
          /\ (/\ response'.op \in {"postSong", "deleteSong"}
              /\ response'.status = OK
              /\ response'.playlist = p) =>
               /\ Len(after) = Len(before) + 1
               /\ after[Len(after)].action =
                    (IF response'.op = "postSong" THEN "add" ELSE "delete")
               /\ after[Len(after)].user_id = response'.user
               /\ response'.data = {after[Len(after)].song_id}
    ]_vars

\* the same user added the same song to a playlist twice and the playlist
\* was deleted after that: its log holds the same row twice
C19_Witness ==
  /\ response.op = "deletePlaylist"
  /\ response.status = OK
  /\ \E S \in songs :
       playlist_song_activities[response.playlist] =
         <<Activity(S, response.user, "add"), Activity(S, response.user, "add")>>

\* C20: a message goes onto export:playlist only in a POST
\* /export/playlists/{P} that succeeds, and it succeeds only for the owner of
\* the existing playlist P; it then puts exactly one message behind those
\* queued, the JSON text of {playlistId: P, targetEmail}.  A request that is
\* invalid, by a collaborator who is not the owner, by a stranger, or for a
\* playlist that does not exist, queues nothing.
C20_ExportByOwnerOnly ==
  [][LET before == queues["export:playlist"]
         after == queues'["export:playlist"]
         P == response'.playlist
         U == response'.user
     IN /\ after # before => (response'.op = "postExport" /\ response'.status = OK)
        /\ (response'.op = "postExport" /\ response'.status = OK) =>
             /\ playlists[P] = U
             /\ \E e \in response'.data :
                  after = Append(before, [wellFormed |-> TRUE,
                                          json |-> [playlistId |-> P, targetEmail |-> e]])
        /\ (response'.op = "postExport" /\ playlists[P] # U) =>
             /\ after = before
             /\ response'.status \in {ValidationError,
                     IF playlists[P] = NoRow THEN NotFoundError ELSE AuthorizationError}
        /\ (response'.op = "postExport" /\ response'.status # OK) => after = before
    ]_vars

\* a collaborator who is not the owner asked for the export of a playlist
\* its owner has exported: the request was refused and the queue holds the
\* owner's message alone
C20_Witness ==
  /\ response.op = "postExport"
  /\ response.status = AuthorizationError
  /\ playlists[response.playlist] \notin {NoRow, response.user}
  /\ collaborations[response.playlist][response.user] > 0
  /\ \E e \in TargetEmails :
       queues["export:playlist"] =
         <<[wellFormed |-> TRUE,
            json |-> [playlistId |-> response.playlist, targetEmail |-> e]]>>

\* ---------------------------------------------------------------- C21
\* C21: whatever a handler throws reaches the client as a response with
\* status 'fail': 400 for a validation or invariant error, 401 for an
\* authentication error, 403 for an authorization error, 404 for a not-found
\* error and 500 for any other fault; the response of a handler that threw
\* nothing is passed through as it is.
C21_ErrorsMapped ==
  IF response.status = OK
    THEN reply = thrown(OK)
    ELSE /\ reply.status = "fail"
         /\ reply.code =
              CASE response.status \in {ValidationError, InvariantError} -> 400
                [] response.status = AuthenticationError -> 401
                [] response.status = AuthorizationError -> 403
                [] response.status = NotFoundError -> 404
                [] OTHER -> 500

\* a store fault (the insert of a collaboration that exists) answered with 500
C21_Witness ==
  /\ response.op = "postCollaboration"
  /\ response.status = ServerError
  /\ reply.status = "fail"
  /\ reply.code = 500

\* ---------------------------------------------------------------- C22
\* C22: a POST or DELETE /collaborations for an existing playlist by a user
\* who is not its owner, a collaborator of it included, ends with
\* AuthorizationError and leaves table collaborations as it was.
C22_OnlyOwnerGrantsOrRevokes ==
  [][(/\ response'.op \in {"postCollaboration", "deleteCollaboration"}
      /\ response'.status # ValidationError
      /\ playlists[response'.playlist] \notin {NoRow, response'.user})
     => /\ response'.status = AuthorizationError
        /\ UNCHANGED collaborations]_vars

\* a collaborator who is not the owner was refused the grant of a collaboration
C22_Witness ==
  /\ response.op = "postCollaboration"
  /\ response.status = AuthorizationError
  /\ playlists[response.playlist] \notin {NoRow, response.user}
  /\ collaborations[response.playlist][response.user] > 0
  /\ \E u \in users : u \in response.data /\ collaborations[response.playlist][u] = 0

\* ---------------------------------------------------------------- C23
\* C23: a DELETE /collaborations by the owner of the playlist for a user who
\* has no collaboration row on it ends with NotFoundError and leaves table
\* collaborations as it was.
C23_RevokeMissingNotFound ==
  [][(/\ response'.op = "deleteCollaboration"
      /\ response'.status # ValidationError
      /\ playlists[response'.playlist] = response'.user
      /\ \A u \in response'.data : collaborations[response'.playlist][u] = 0)
     => /\ response'.status = NotFoundError
        /\ UNCHANGED collaborations]_vars

\* ---------------------------------------------------------------- C24
\* C24: a DELETE /playlists/{id}/songs by a user the access check lets
\* through (a holder of a collaboration row), for a song that has no row in
\* the playlist, ends with NotFoundError; the songs of the playlist, the
\* activity log and every cache key stay as they were.
C24_RemoveAbsentSong ==
  [][(/\ response'.op = "deleteSong"
      /\ response'.status # ValidationError
      /\ playlists[response'.playlist] # NoRow
      /\ collaborations[response'.playlist][response'.user] > 0
      /\ \A s \in response'.data : playlist_songs[response'.playlist][s] = 0)
     => /\ response'.status = NotFoundError
        /\ UNCHANGED <<playlist_songs, playlist_song_activities, cache>>]_vars

\* the removal of an absent song was refused while the songs of the playlist
\* were cached and its log held a row
C24_Witness ==
  /\ response.op = "deleteSong"
  /\ response.status = NotFoundError
  /\ playlists[response.playlist] # NoRow
  /\ \A s \in response.data : playlist_songs[response.playlist][s] = 0
  /\ cache.songs[response.playlist] # {}
  /\ Len(playlist_song_activities[response.playlist]) > 0

\* ---------------------------------------------------------------- C25
\* C25: the rows a GET /playlists reads from the store for user U hold every
\* playlist U owns or has a collaboration row on exactly once, and no other
\* playlist.
C25_EachPlaylistOnce ==
  (response.op = "getPlaylists" /\ response.source = "db") =>
    \A rows \in response.data : \A p \in PlaylistIds :
      rows[p] = IF /\ playlists[p] # NoRow
                   /\ \/ playlists[p] = response.user
                      \/ collaborations[p][response.user] > 0
                  THEN 1 ELSE 0

\* ---------------------------------------------------------------- C26
\* C26: a request to add or remove a song by a user who neither owns the
\* playlist nor holds a collaboration row on it, and a request to delete a
\* playlist by a user who does not own it, change no playlist row, no
\* collaboration row, no song of a playlist, no activity row and no cache key.
C26_NoUnauthorizedMutation ==
  [][(\/ /\ response'.op \in {"postSong", "deleteSong"}
         /\ playlists[response'.playlist] # response'.user
         /\ collaborations[response'.playlist][response'.user] = 0
      \/ /\ response'.op = "deletePlaylist"
         /\ playlists[response'.playlist] # response'.user)
     => /\ response'.status \in {AuthorizationError, NotFoundError}
        /\ UNCHANGED <<playlists, collaborations, playlist_songs,
                       playlist_song_activities, cache>>]_vars

\* a user without access was refused a song of a playlist that holds one and
\* whose songs are cached
C26_Witness ==
  /\ response.op \in {"postSong", "deleteSong"}
  /\ response.status = AuthorizationError
  /\ playlists[response.playlist] \notin {NoRow, response.user}
  /\ collaborations[response.playlist][response.user] = 0
  /\ \E s \in CatalogSongs : playlist_songs[response.playlist][s] > 0
  /\ cache.songs[response.playlist] # {}

\* ---------------------------------------------------------------- C27
\* C27: a GET /playlists/{id}/activities by a user who neither owns the
\* playlist nor holds a collaboration row on it ends with AuthorizationError
\* and returns no activity log, whether or not activities:P is cached.
C27_ActivitiesNeedAccess ==
  (/\ response.op = "getActivities"
   /\ playlists[response.playlist] \notin {NoRow, response.user}
   /\ collaborations[response.playlist][response.user] = 0)
  => /\ response.status = AuthorizationError
     /\ response.data = NoData

\* ---------------------------------------------------------------- C28
\* C28: whenever no request on the songs of a playlist is in flight, a value
\* cached under songs:P is the JSON text of the rows the store holds for P
\* now, and P has a row.
C28_CacheAgreesWhenQuiet ==
  pending = {} =>
    \A p \in PlaylistIds : \A e \in cache.songs[p] :
      /\ playlists[p] # NoRow
      /\ e.value = JSONstringify(getSongsFromPlaylist_rows(p))

\* ---------------------------------------------------------------- C29
\* the rows of the log of playlist p that are about song s, oldest first
ActivitiesOf(p, s) ==
  SelectSeq(playlist_song_activities[p], LAMBDA a : a.song_id = s)

\* C29: whenever no request on the songs of a playlist is in flight, the
\* newest activity row about (P, S) is an 'add' row exactly when S has a row
\* in P.
C29_LastActivityAgrees ==
  pending = {} =>
    \A p \in PlaylistIds, s \in CatalogSongs :
      ActivitiesOf(p, s) # <<>> =>
        (ActivitiesOf(p, s)[Len(ActivitiesOf(p, s))].action = "add"
           <=> playlist_songs[p][s] > 0)

\* ---------------------------------------------------------------- C30
\* C30: a PUT /authentications succeeds, and issues an access token, only for
\* a refresh token that has a row in table authentications and carries the
\* signature of the refresh key; a DELETE that succeeds leaves the token
\* without a row; a PUT or DELETE with a token that has no row fails, issues
\* nothing and changes nothing; and a token without a row gets one again by a
\* successful login only.
C30_RefreshTokenLifecycle ==
  [][/\ (response'.op = "putAuthentication" /\ response'.status = OK)
          => /\ authentications[response'.token] > 0
             /\ response'.token.key = refreshKey
             /\ \A a \in response'.data :
                  a.key = accessKey /\ a.id = response'.token.id
     /\ (response'.op = "putAuthentication" /\ response'.status # OK)
          => response'.data = NoData
     /\ (response'.op = "deleteAuthentication" /\ response'.status = OK)
          => /\ authentications[response'.token] > 0
             /\ authentications'[response'.token] = 0
     /\ (/\ response'.op \in {"putAuthentication", "deleteAuthentication"}
         /\ authentications[response'.token] = 0)
          => /\ response'.status \in {ValidationError, InvariantError}
             /\ response'.data = NoData
             /\ UNCHANGED authentications
     /\ \A t \in Tokens :
          (authentications[t] = 0 /\ authentications'[t] > 0)
            => /\ response'.op = "postAuthentication"
               /\ response'.status = OK
               /\ response'.token = t
    ]_vars

\* a refresh of a token that a login gave out and a logout removed was
\* refused, while another token is still stored
C30_Witness ==
  /\ response.op = "putAuthentication"
  /\ response.status = InvariantError
  /\ response.token \in issued
  /\ authentications[response.token] = 0
  /\ response.data = NoData
  /\ \E t \in issued : authentications[t] > 0

====
